---- MODULE Spec2Model ----
(***************************************************************************)
(* scripts/convert_pdf_slides.py: a command-line driver that converts a    *)
(* PDF into JPEG slides by running the external tool pdftoppm once.        *)
(*                                                                         *)
(* Text is modelled as a sequence of atoms.  An atom is a single character *)
(* (digits, signs), the path separator "/", one whole path component, or a *)
(* literal fragment of a message.  Concatenation of text is \o.            *)
(* The file system holds directories and regular files only (no symbolic   *)
(* links) and is changed by the driver alone.                              *)
(***************************************************************************)
EXTENDS Integers, Sequences, FiniteSets, TLC

VARIABLES
    argv,        \* the command line: [pdf, opts]; opts maps given flags to raw text
    toolOnPath,  \* environment: shutil.which("pdftoppm") is not None
    cwd,         \* environment: the working directory (components of an absolute path)
    fsDirs,      \* file system: the directories (absolute, normalised component lists)
    fsFiles,     \* file system: the regular files
    fsDirs0,     \* the directories when the run began (never written after Init)
    pc,          \* the driver's position
    args,        \* <<>> before parse_args returned, <<Namespace>> after
    pdf_path,    \* convert_pdf's local after line 51: <<>> or <<Path>>
    command,     \* convert_pdf's local after lines 58-67: <<>> or the argument list
    proc,        \* the child process: "none", "running", "exited"
    returncode,  \* <<>> or <<the child's return code>>
    nStarted,    \* how many child processes the run has started
    stdout,      \* the messages printed to standard output, in order
    stderr,      \* the messages printed to standard error, in order
    exitStatus   \* <<>> while the driver runs, <<status>> once it has terminated

vars == <<argv, toolOnPath, cwd, fsDirs, fsFiles, fsDirs0, pc, args, pdf_path, command,
          proc, returncode, nStarted, stdout, stderr, exitStatus>>

(***************************************************************************)
(* Bounds of the model.                                                    *)
(***************************************************************************)
\* The child's return codes range over -MaxSignal..MaxReturnCode (a negative
\* code -N means the child was killed by signal N) and two large codes.
MaxReturnCode == 3

MaxSignal == 2

ReturnCodes == ((0 - MaxSignal)..MaxReturnCode) \cup {127, 255}

(***************************************************************************)
(* Text and integers: Python's str(int) and int(str).                      *)
(***************************************************************************)
Digits == <<"0", "1", "2", "3", "4", "5", "6", "7", "8", "9">>

DigitVal(c) == (CHOOSE i \in 1..10 : Digits[i] = c) - 1

IsDigit(c) == \E i \in 1..10 : Digits[i] = c

RECURSIVE NatToStr(_)
NatToStr(n) ==
    IF n < 10 THEN <<Digits[n + 1]>>
    ELSE NatToStr(n \div 10) \o <<Digits[(n % 10) + 1]>>

\* str(n) for an int n
IntToStr(n) == IF n < 0 THEN <<"-">> \o NatToStr(0 - n) ELSE NatToStr(n)

RECURSIVE DigitsToNat(_)
DigitsToNat(s) ==
    IF s = <<>> THEN 0
    ELSE 10 * DigitsToNat(SubSeq(s, 1, Len(s) - 1)) + DigitVal(s[Len(s)])

\* int(s): an optional sign, then one or more decimal digits (leading zeros are
\* accepted).  [ok |-> FALSE] stands for ValueError.
ParseInt(s) ==
    LET signed == s # <<>> /\ s[1] \in {"-", "+"}
        body   == IF signed THEN Tail(s) ELSE s
    IN  IF body # <<>> /\ \A i \in 1..Len(body) : IsDigit(body[i])
        THEN [ok |-> TRUE,
              val |-> IF signed /\ s[1] = "-" THEN 0 - DigitsToNat(body)
                      ELSE DigitsToNat(body)]
        ELSE [ok |-> FALSE, val |-> 0]

(***************************************************************************)
(* pathlib.Path (POSIX flavour).  A Path is [root, parts].                 *)
(***************************************************************************)
RECURSIVE Components(_)
\* the components of a text: every atom but "/" and "."
Components(s) ==
    IF s = <<>> THEN <<>>
    ELSE IF s[1] \in {"/", "."} THEN Components(Tail(s))
    ELSE <<s[1]>> \o Components(Tail(s))

\* Path(s)
PathParse(s) == [root |-> s # <<>> /\ s[1] = "/", parts |-> Components(s)]

RECURSIVE JoinParts(_)
JoinParts(parts) ==
    IF parts = <<>> THEN <<>>
    ELSE IF Len(parts) = 1 THEN parts
    ELSE <<parts[1], "/">> \o JoinParts(Tail(parts))

\* str(p)
PathStr(p) ==
    IF p.root THEN <<"/">> \o JoinParts(p.parts)
    ELSE IF p.parts = <<>> THEN <<".">>
    ELSE JoinParts(p.parts)

\* p / q: an absolute right operand replaces the left one
PathJoin(p, q) ==
    IF q.root THEN q ELSE [root |-> p.root, parts |-> p.parts \o q.parts]

RECURSIVE Normalise(_)
\* ".." removes the component before it; at the root it is dropped
Normalise(parts) ==
    IF parts = <<>> THEN <<>>
    ELSE LET init == Normalise(SubSeq(parts, 1, Len(parts) - 1))
             last == parts[Len(parts)]
         IN  IF last = ".."
             THEN (IF init = <<>> THEN <<>> ELSE SubSeq(init, 1, Len(init) - 1))
             ELSE Append(init, last)

\* the absolute components of p seen from directory base
AbsParts(p, base) == IF p.root THEN p.parts ELSE base \o p.parts

\* Resolve with the call to resolve() left out: the path as it was given
Resolve_AsGiven(p, base) == p

\* p.resolve() with working directory base
Resolve(p, base) == [root |-> TRUE, parts |-> Normalise(AbsParts(p, base))]

\* p.exists()
Exists(p, dirs, files) == p.parts \in (dirs \cup files)

(***************************************************************************)
(* Path.mkdir(parents=True, exist_ok=True).  The components of p are       *)
(* visited from the left: a missing one is created, an existing directory  *)
(* is kept (exist_ok), a regular file in the way raises.  Directories      *)
(* created before the raise stay.                                          *)
(***************************************************************************)
RECURSIVE MkdirFrom(_, _, _, _, _, _)
MkdirFrom(p, base, dirs, files, k, created) ==
    IF k > Len(p.parts) THEN [ok |-> TRUE, dirs |-> dirs, exc |-> "none"]
    ELSE LET loc == Normalise(AbsParts([root |-> p.root,
                                        parts |-> SubSeq(p.parts, 1, k)], base))
         IN  IF loc \in files
             THEN [ok |-> FALSE, dirs |-> dirs,
                   exc |-> IF k < Len(p.parts) /\ ~created
                           THEN "NotADirectoryError" ELSE "FileExistsError"]
             ELSE IF loc \in dirs
             THEN MkdirFrom(p, base, dirs, files, k + 1, created)
             ELSE MkdirFrom(p, base, dirs \cup {loc}, files, k + 1, TRUE)

MkdirParents(p, base, dirs, files) == MkdirFrom(p, base, dirs, files, 1, FALSE)

(***************************************************************************)
(* The command line and the environment the runs are drawn from.           *)
(***************************************************************************)
\* default=150 of --dpi
DefaultDpi == 150

\* default=Path("imgs/slides") of --output-dir
DefaultOutputDir == PathParse(<<"imgs", "/", "slides">>)

\* default="portfolio-page" of --prefix
DefaultPrefix == <<"portfolio-page">>

\* the status of sys.exit(message) and of an uncaught exception
ExitFatal == 1

\* the status of argparse's parser.error
ExitUsage == 2

OptionNames == {"--output-dir", "--prefix", "--dpi"}

PdfArgs ==
    { <<"portfolio.pdf">>,
      <<"docs", "/", "..", "/", "portfolio.pdf">>,
      <<"/", "home", "/", "site", "/", "portfolio.pdf">>,
      <<"missing.pdf">>,
      <<"..", "/", "missing.pdf">> }

OutputDirArgs ==
    { <<"out">>,
      <<"imgs", "/", "slides", "/">>,
      <<"/", "tmp", "/", "out", "/", "deep">>,
      <<"new", "/", "..", "/", "out">>,
      <<"new", "/", "..", "/", "notes.txt", "/", "x">>,
      <<"portfolio.pdf">> }

PrefixArgs == { <<"slide">>, <<"/", "abs">>, <<"sub", "/", "p">>, <<>> }

DpiArgs ==
    { <<"7", "2">>, <<"0">>, <<"-", "5">>, <<"0", "0", "7">>,
      <<"+", "3", "0", "0">>, <<"x">>, <<>> }

OptionValues(o) ==
    IF o = "--output-dir" THEN OutputDirArgs
    ELSE IF o = "--prefix" THEN PrefixArgs
    ELSE DpiArgs

\* every assignment of raw values to a subset of the flags
OptionChoices ==
    UNION { { f \in [given -> OutputDirArgs \cup PrefixArgs \cup DpiArgs] :
                \A o \in given : f[o] \in OptionValues(o) } :
            given \in SUBSET OptionNames }

Home == <<"home", "site">>

BaseDirs == { <<>>, <<"home">>, Home, <<"tmp">> }

BaseFiles == { Home \o <<"portfolio.pdf">>, Home \o <<"notes.txt">> }

\* the file systems a run may start in: (directories, files)
FileSystems ==
    { <<BaseDirs, BaseFiles>>,
      <<BaseDirs \cup {Home \o <<"imgs">>, Home \o <<"imgs", "slides">>,
                       Home \o <<"out">>}, BaseFiles>>,
      <<BaseDirs, BaseFiles \cup {Home \o <<"imgs">>, <<"tmp", "portfolio.pdf">>}>> }

WorkingDirs == { Home, <<"tmp">> }

(***************************************************************************)
(* Messages.                                                               *)
(***************************************************************************)
ToolMissingMsg(tool) ==
    <<"Error: required tool '", tool, "' was ", "not found in PATH",
      ". Install poppler-utils.">>

PdfMissingMsg(p) == <<"Error: ", "PDF file not found", ": ">> \o PathStr(p)

ToolFailedPrefix == <<"pdftoppm failed with exit code ">>

\* ToolFailedMsg naming the driver's own exit status instead of the child's code
ToolFailedMsg_OwnStatus(code) == ToolFailedPrefix \o IntToStr(1)

ToolFailedMsg(code) == ToolFailedPrefix \o IntToStr(code)

SuccessPrefix == <<"Generated JPEG slides in ">>

SuccessMsg(dir, prefix) ==
    SuccessPrefix \o PathStr(dir) \o <<" using prefix '">> \o prefix \o <<"'.">>

UsageMsg(raw) ==
    <<"usage: ", "error: argument --dpi: invalid int value: '">> \o raw \o <<"'">>

TracebackMsg(exc) == <<"Traceback (most recent call last): ", exc>>

(***************************************************************************)
(* The run.                                                                *)
(***************************************************************************)
Init ==
    /\ argv \in [pdf : PdfArgs, opts : OptionChoices]
    /\ toolOnPath \in BOOLEAN
    /\ cwd \in WorkingDirs
    /\ \E fs \in FileSystems : fsDirs = fs[1] /\ fsFiles = fs[2] /\ fsDirs0 = fs[1]
    /\ pc = "parse_args"
    /\ args = <<>>
    /\ pdf_path = <<>>
    /\ command = <<>>
    /\ proc = "none"
    /\ returncode = <<>>
    /\ nStarted = 0
    /\ stdout = <<>>
    /\ stderr = <<>>
    /\ exitStatus = <<>>

\* SysExit ending the interpreter with status 0 (the message printed, then exit(0))
SysExit_StatusZero(msg) ==
    /\ stderr' = Append(stderr, msg)
    /\ exitStatus' = <<0>>
    /\ pc' = "exited"

\* sys.exit(msg): msg goes to standard error and the interpreter ends with status 1
SysExit(msg) ==
    /\ stderr' = Append(stderr, msg)
    /\ exitStatus' = <<ExitFatal>>
    /\ pc' = "exited"

Given(o) == o \in DOMAIN argv.opts

\* Namespace with another default resolution
Namespace_OtherDefaultDpi ==
    [pdf        |-> PathParse(argv.pdf),
     output_dir |-> IF Given("--output-dir") THEN PathParse(argv.opts["--output-dir"])
                    ELSE DefaultOutputDir,
     prefix     |-> IF Given("--prefix") THEN argv.opts["--prefix"] ELSE DefaultPrefix,
     dpi        |-> IF Given("--dpi") THEN ParseInt(argv.opts["--dpi"]).val
                    ELSE 2 * DefaultDpi]

\* parse_args: the Namespace of the given flags and the defaults
Namespace ==
    [pdf        |-> PathParse(argv.pdf),
     output_dir |-> IF Given("--output-dir") THEN PathParse(argv.opts["--output-dir"])
                    ELSE DefaultOutputDir,
     prefix     |-> IF Given("--prefix") THEN argv.opts["--prefix"] ELSE DefaultPrefix,
     dpi        |-> IF Given("--dpi") THEN ParseInt(argv.opts["--dpi"]).val
                    ELSE DefaultDpi]

\* main, line 76: parse_args().  type=int rejects a value int() cannot read.
ParseArgs ==
    /\ pc = "parse_args"
    /\ IF Given("--dpi") /\ ~ParseInt(argv.opts["--dpi"]).ok
       THEN /\ stderr' = Append(stderr, UsageMsg(argv.opts["--dpi"]))
            /\ exitStatus' = <<ExitUsage>>
            /\ pc' = "exited"
            /\ args' = args
       ELSE /\ args' = <<Namespace>>
            /\ pc' = "ensure_tool"
            /\ UNCHANGED <<stderr, exitStatus>>
    /\ UNCHANGED <<argv, toolOnPath, cwd, fsDirs, fsFiles, fsDirs0, pdf_path, command,
                   proc, returncode, nStarted, stdout>>

\* EnsureTool with the test of shutil.which left out
EnsureTool_NoCheck ==
    /\ pc = "ensure_tool"
    /\ pc' = "convert_pdf"
    /\ UNCHANGED <<argv, toolOnPath, cwd, fsDirs, fsFiles, fsDirs0, args, pdf_path,
                   command, proc, returncode, nStarted, stdout, stderr, exitStatus>>

\* main, line 77: ensure_tool("pdftoppm")
EnsureTool ==
    /\ pc = "ensure_tool"
    /\ IF ~toolOnPath
       THEN SysExit(ToolMissingMsg("pdftoppm"))
       ELSE /\ pc' = "convert_pdf"
            /\ UNCHANGED <<stderr, exitStatus>>
    /\ UNCHANGED <<argv, toolOnPath, cwd, fsDirs, fsFiles, fsDirs0, args, pdf_path, command,
                   proc, returncode, nStarted, stdout>>

\* convert_pdf, lines 51-53: resolve the PDF path and test that it exists
CheckPdf ==
    /\ pc = "convert_pdf"
    /\ LET resolved == Resolve(args[1].pdf, cwd)
       IN  /\ pdf_path' = <<resolved>>
           /\ IF ~Exists(resolved, fsDirs, fsFiles)
              THEN SysExit(PdfMissingMsg(resolved))
              ELSE /\ pc' = "mkdir"
                   /\ UNCHANGED <<stderr, exitStatus>>
    /\ UNCHANGED <<argv, toolOnPath, cwd, fsDirs, fsFiles, fsDirs0, args, command,
                   proc, returncode, nStarted, stdout>>

\* MakeOutputDir with the mkdir call left out
MakeOutputDir_Skipped ==
    /\ pc = "mkdir"
    /\ pc' = "build_command"
    /\ UNCHANGED <<argv, toolOnPath, cwd, fsDirs, fsFiles, fsDirs0, args, pdf_path,
                   command, proc, returncode, nStarted, stdout, stderr, exitStatus>>

\* convert_pdf, line 55: output_dir.mkdir(parents=True, exist_ok=True).  An OSError
\* is caught nowhere: the traceback is printed and the interpreter ends with status 1.
MakeOutputDir ==
    /\ pc = "mkdir"
    /\ LET made == MkdirParents(args[1].output_dir, cwd, fsDirs, fsFiles)
       IN  /\ fsDirs' = made.dirs
           /\ IF made.ok
              THEN /\ pc' = "build_command"
                   /\ UNCHANGED <<stderr, exitStatus>>
              ELSE /\ stderr' = Append(stderr, TracebackMsg(made.exc))
                   /\ exitStatus' = <<ExitFatal>>
                   /\ pc' = "exited"
    /\ UNCHANGED <<argv, toolOnPath, cwd, fsFiles, fsDirs0, args, pdf_path, command,
                   proc, returncode, nStarted, stdout>>

\* Command with -ry left at the default resolution
Command_DefaultRy(pdf, output_dir, prefix, dpi) ==
    LET prefix_path == PathJoin(output_dir, PathParse(prefix))
    IN  << <<"pdftoppm">>, <<"-jpeg">>,
           <<"-rx">>, IntToStr(dpi),
           <<"-ry">>, IntToStr(DefaultDpi),
           PathStr(pdf), PathStr(prefix_path) >>

\* convert_pdf, lines 56-67: the argument list
Command(pdf, output_dir, prefix, dpi) ==
    LET prefix_path == PathJoin(output_dir, PathParse(prefix))
    IN  << <<"pdftoppm">>, <<"-jpeg">>,
           <<"-rx">>, IntToStr(dpi),
           <<"-ry">>, IntToStr(dpi),
           PathStr(pdf), PathStr(prefix_path) >>

BuildCommand ==
    /\ pc = "build_command"
    /\ command' = Command(pdf_path[1], args[1].output_dir, args[1].prefix, args[1].dpi)
    /\ pc' = "run"
    /\ UNCHANGED <<argv, toolOnPath, cwd, fsDirs, fsFiles, fsDirs0, args, pdf_path,
                   proc, returncode, nStarted, stdout, stderr, exitStatus>>

\* convert_pdf, line 70: subprocess.run starts the child and waits for it
StartProcess ==
    /\ pc = "run"
    /\ proc' = "running"
    /\ nStarted' = nStarted + 1
    /\ pc' = "waiting"
    /\ UNCHANGED <<argv, toolOnPath, cwd, fsDirs, fsFiles, fsDirs0, args, pdf_path, command,
                   returncode, stdout, stderr, exitStatus>>

\* the child: pdftoppm ends with some return code
ProcessExits ==
    /\ proc = "running"
    /\ \E c \in ReturnCodes : returncode' = <<c>>
    /\ proc' = "exited"
    /\ UNCHANGED <<argv, toolOnPath, cwd, fsDirs, fsFiles, fsDirs0, pc, args, pdf_path, command,
                   nStarted, stdout, stderr, exitStatus>>

\* WaitReturns running the command a second time after a first failure
WaitReturns_Retry ==
    /\ pc = "waiting"
    /\ proc = "exited"
    /\ IF returncode[1] # 0
       THEN IF nStarted < 2
            THEN pc' = "run" /\ UNCHANGED <<stderr, exitStatus>>
            ELSE SysExit(ToolFailedMsg(returncode[1]))
       ELSE /\ pc' = "print"
            /\ UNCHANGED <<stderr, exitStatus>>
    /\ UNCHANGED <<argv, toolOnPath, cwd, fsDirs, fsFiles, fsDirs0, args, pdf_path,
                   command, proc, returncode, nStarted, stdout>>

\* WaitReturns not waiting: the child is started and the driver goes on at once
WaitReturns_NoWait ==
    /\ pc = "waiting"
    /\ IF returncode # <<>> /\ returncode[1] # 0
       THEN SysExit(ToolFailedMsg(returncode[1]))
       ELSE /\ pc' = "print"
            /\ UNCHANGED <<stderr, exitStatus>>
    /\ UNCHANGED <<argv, toolOnPath, cwd, fsDirs, fsFiles, fsDirs0, args, pdf_path,
                   command, proc, returncode, nStarted, stdout>>

\* convert_pdf, lines 70-72: the wait returns; check=True raises CalledProcessError
\* on a non-zero return code, and the handler exits with the code in the message
WaitReturns ==
    /\ pc = "waiting"
    /\ proc = "exited"
    /\ IF returncode[1] # 0
       THEN SysExit(ToolFailedMsg(returncode[1]))
       ELSE /\ pc' = "print"
            /\ UNCHANGED <<stderr, exitStatus>>
    /\ UNCHANGED <<argv, toolOnPath, cwd, fsDirs, fsFiles, fsDirs0, args, pdf_path, command,
                   proc, returncode, nStarted, stdout>>

\* PrintSuccess naming the output directory as given, without resolve()
PrintSuccess_Unresolved ==
    /\ pc = "print"
    /\ stdout' = Append(stdout, SuccessMsg(args[1].output_dir, args[1].prefix))
    /\ exitStatus' = <<0>>
    /\ pc' = "exited"
    /\ UNCHANGED <<argv, toolOnPath, cwd, fsDirs, fsFiles, fsDirs0, args, pdf_path,
                   command, proc, returncode, nStarted, stderr>>

\* main, lines 79-81: the confirmation; main returns and the interpreter ends with 0
PrintSuccess ==
    /\ pc = "print"
    /\ stdout' = Append(stdout, SuccessMsg(Resolve(args[1].output_dir, cwd),
                                           args[1].prefix))
    /\ exitStatus' = <<0>>
    /\ pc' = "exited"
    /\ UNCHANGED <<argv, toolOnPath, cwd, fsDirs, fsFiles, fsDirs0, args, pdf_path, command,
                   proc, returncode, nStarted, stderr>>

Next ==
    \/ ParseArgs
    \/ EnsureTool
    \/ CheckPdf
    \/ MakeOutputDir
    \/ BuildCommand
    \/ StartProcess
    \/ ProcessExits
    \/ WaitReturns
    \/ PrintSuccess

Spec == Init /\ [][Next]_vars

\* The driver's own steps are taken whenever they are possible: a single thread runs
\* main to its end.  Nothing makes the child end.
DriverStep ==
    \/ ParseArgs
    \/ EnsureTool
    \/ CheckPdf
    \/ MakeOutputDir
    \/ BuildCommand
    \/ StartProcess
    \/ WaitReturns
    \/ PrintSuccess

FairSpec == Spec /\ WF_vars(DriverStep)

(***************************************************************************)
(* Vocabulary of the properties.                                           *)
(***************************************************************************)
\* sub occurs in s as a contiguous piece
IsInfix(sub, s) ==
    \E i \in 0..(Len(s) - Len(sub)) : SubSeq(s, i + 1, i + Len(sub)) = sub

IsSuffix(sub, s) ==
    Len(sub) <= Len(s) /\ SubSeq(s, Len(s) - Len(sub) + 1, Len(s)) = sub

Parsed == args # <<>>

Terminated == pc = "exited" /\ exitStatus # <<>>

ExitedNonZero == Terminated /\ exitStatus[1] # 0

\* the PDF named on the command line, as an absolute normalised component list
PdfLocation == Normalise(AbsParts(PathParse(argv.pdf), cwd))

PdfPresent == PdfLocation \in (fsDirs0 \cup fsFiles)

\* t is the text of an absolute path without ".." that names location loc
IsAbsoluteTextOf(t, loc) ==
    /\ t # <<>>
    /\ t[1] = "/"
    /\ \A i \in 1..Len(t) : t[i] # ".."
    /\ Components(t) = loc

\* nothing of the steps after the checks has happened
NothingDone ==
    /\ fsDirs = fsDirs0
    /\ command = <<>>
    /\ nStarted = 0
    /\ proc = "none"
    /\ returncode = <<>>
    /\ stdout = <<>>

\* the four ways a parsed run reports its end
IsToolMissing(m) == IsInfix(<<"not found in PATH">>, m)

IsPdfMissing(m) == IsInfix(<<"PDF file not found">>, m)

IsToolFailed(m) ==
    /\ Len(m) > Len(ToolFailedPrefix)
    /\ SubSeq(m, 1, Len(ToolFailedPrefix)) = ToolFailedPrefix

IsTraceback(m) == m # <<>> /\ m[1] = "Traceback (most recent call last): "

\* the code a tool-failure message names
CodeNamed(m) == ParseInt(SubSeq(m, Len(ToolFailedPrefix) + 1, Len(m)))

\* the directory --output-dir names, as an absolute normalised component list
OutputLocation == Normalise(AbsParts(args[1].output_dir, cwd))

(***************************************************************************)
(* C1.  When pdftoppm is not on PATH, whether or not the PDF exists, a run *)
(* whose arguments parse never gets past ensure_tool: it ends with a       *)
(* non-zero status and one message containing "not found in PATH", the     *)
(* PDF-existence check has not been made, no directory has been created    *)
(* and no process has been started.                                        *)
(***************************************************************************)
C1_MissingToolIsFatal ==
    ~toolOnPath =>
        /\ pc \in {"parse_args", "ensure_tool", "exited"}
        /\ pdf_path = <<>>
        /\ NothingDone
        /\ (pc = "exited" /\ Parsed) =>
              /\ ExitedNonZero
              /\ Len(stderr) = 1
              /\ IsToolMissing(stderr[1])

C1_Witness ==
    /\ ~toolOnPath
    /\ Parsed
    /\ Terminated
    /\ ~PdfPresent

(***************************************************************************)
(* C2.  When the tool is present and the PDF path does not exist, a run    *)
(* whose arguments parse never gets past the existence check: it ends with *)
(* a non-zero status and one message containing "PDF file not found"       *)
(* followed by the resolved path, an absolute path without "..", and the   *)
(* output directory has not been created and no process has been started.  *)
(***************************************************************************)
C2_MissingPdfIsFatal ==
    (toolOnPath /\ ~PdfPresent) =>
        /\ pc \in {"parse_args", "ensure_tool", "convert_pdf", "exited"}
        /\ NothingDone
        /\ (pc = "exited" /\ Parsed) =>
              /\ ExitedNonZero
              /\ Len(stderr) = 1
              /\ IsPdfMissing(stderr[1])
              /\ \E k \in 1..Len(stderr[1]) :
                    IsAbsoluteTextOf(SubSeq(stderr[1], k, Len(stderr[1])), PdfLocation)

C2_Witness ==
    /\ toolOnPath
    /\ ~PdfPresent
    /\ Parsed
    /\ Terminated
    /\ ~PathParse(argv.pdf).root
    /\ \E i \in 1..Len(argv.pdf) : argv.pdf[i] = ".."

(***************************************************************************)
(* C3.  When the external process returns a non-zero code c, the driver    *)
(* prints no confirmation, and it ends with a non-zero status and one      *)
(* message that names exactly c.                                           *)
(***************************************************************************)
C3_ToolFailureNamesCode ==
    (returncode # <<>> /\ returncode[1] # 0) =>
        /\ stdout = <<>>
        /\ pc \in {"waiting", "exited"}
        /\ pc = "exited" =>
              /\ ExitedNonZero
              /\ Len(stderr) = 1
              /\ IsToolFailed(stderr[1])
              /\ CodeNamed(stderr[1]).ok
              /\ CodeNamed(stderr[1]).val = returncode[1]

C3_Witness ==
    /\ Terminated
    /\ returncode # <<>>
    /\ returncode[1] < 0

(***************************************************************************)
(* C5.  Whenever the external process has been started, the output         *)
(* directory and all its parents exist as directories, and the resolved    *)
(* PDF path has been tested and exists.                                    *)
(***************************************************************************)
C5_StartedOnlyWhenPrepared ==
    (nStarted > 0 \/ proc # "none") =>
        /\ \A k \in 0..Len(OutputLocation) : SubSeq(OutputLocation, 1, k) \in fsDirs
        /\ pdf_path # <<>>
        /\ pdf_path[1].parts = PdfLocation
        /\ Exists(pdf_path[1], fsDirs, fsFiles)

C5_Witness ==
    /\ proc = "running"
    /\ OutputLocation \notin fsDirs0
    /\ SubSeq(OutputLocation, 1, Len(OutputLocation) - 1) \notin fsDirs0

(***************************************************************************)
(* C4.  As stated: with a valid PDF path and the tool present, a run whose *)
(* arguments parse ends with status 0 and a confirmation.                  *)
(***************************************************************************)
C4_AsStated ==
    (Terminated /\ Parsed /\ toolOnPath /\ PdfPresent) =>
        /\ exitStatus = <<0>>
        /\ Len(stdout) = 1

\* the output directory can be made: no regular file is at its path or above it
OutputDirCreatable ==
    MkdirParents(PathParse(IF Given("--output-dir") THEN argv.opts["--output-dir"]
                           ELSE <<"imgs", "/", "slides">>),
                 cwd, fsDirs0, fsFiles).ok

(***************************************************************************)
(* C4, amended.  With a valid PDF path, the tool present and an output     *)
(* directory that can be created, a run whose arguments parse ends only    *)
(* after the external process has returned; when the process returned 0    *)
(* the run ends with status 0, nothing on standard error and one           *)
(* confirmation that contains the resolved (absolute) output directory and *)
(* the prefix.                                                             *)
(***************************************************************************)
C4_SuccessConfirmed ==
    (Terminated /\ Parsed /\ toolOnPath /\ PdfPresent /\ OutputDirCreatable) =>
        /\ returncode # <<>>
        /\ returncode = <<0>> =>
              /\ exitStatus = <<0>>
              /\ stderr = <<>>
              /\ Len(stdout) = 1
              /\ SubSeq(stdout[1], 1, Len(SuccessPrefix)) = SuccessPrefix
              /\ \E i, j \in 1..Len(stdout[1]) :
                    /\ IsAbsoluteTextOf(SubSeq(stdout[1], i, j), OutputLocation)
                    /\ IsSuffix(<<" using prefix '">> \o args[1].prefix \o <<"'.">>,
                                SubSeq(stdout[1], j + 1, Len(stdout[1])))

C4_Witness ==
    /\ Terminated
    /\ returncode = <<0>>
    /\ exitStatus = <<0>>
    /\ ~args[1].output_dir.root
    /\ args[1].prefix = <<"sub", "/", "p">>

C7_DefaultCommand ==
    (DOMAIN argv.opts = {} /\ command # <<>>) =>
        /\ Len(command) = 8
        /\ command[3] = <<"-rx">>
        /\ command[4] = <<"1", "5", "0">>
        /\ command[5] = <<"-ry">>
        /\ command[6] = <<"1", "5", "0">>
        /\ command[8] = <<"imgs", "/", "slides", "/", "portfolio-page">>

C7_Witness ==
    /\ DOMAIN argv.opts = {}
    /\ proc = "running"
    /\ command # <<>>

(***************************************************************************)
(* C8.  Every command the driver builds has the shape pdftoppm -jpeg -rx d *)
(* -ry d pdf out: both d are the same text, the decimal text of the parsed *)
(* DPI (zero and negative values included); pdf is the absolute resolved   *)
(* PDF path; out is the output directory joined with the prefix as pathlib *)
(* joins (an absolute prefix replaces the directory).                      *)
(***************************************************************************)
C8_CommandShape ==
    command # <<>> =>
        /\ Len(command) = 8
        /\ command[1] = <<"pdftoppm">>
        /\ command[2] = <<"-jpeg">>
        /\ command[3] = <<"-rx">>
        /\ command[5] = <<"-ry">>
        /\ command[4] = command[6]
        /\ ParseInt(command[4]).ok
        /\ ParseInt(command[4]).val = args[1].dpi
        /\ Given("--dpi") => ParseInt(argv.opts["--dpi"]).val = ParseInt(command[4]).val
        /\ IsAbsoluteTextOf(command[7], PdfLocation)
        /\ LET out == PathParse(command[8])
               pre == PathParse(args[1].prefix)
           IN  IF pre.root THEN out = pre
               ELSE /\ out.root = args[1].output_dir.root
                    /\ out.parts = args[1].output_dir.parts \o pre.parts

C8_Witness ==
    /\ command # <<>>
    /\ args[1].dpi < 0
    /\ proc = "running"

(***************************************************************************)
(* C9.  A run starts the external process at most once; after a non-zero   *)
(* return the directories the run created are still there; and once the    *)
(* driver has terminated nothing changes any more.                         *)
(***************************************************************************)
C9_NoRetryNoCleanup ==
    /\ [](/\ nStarted <= 1
          /\ fsDirs0 \subseteq fsDirs
          /\ (Terminated /\ returncode # <<>> /\ returncode # <<0>>) =>
                (nStarted = 1 /\ OutputLocation \in fsDirs))
    /\ [][pc # "exited"]_vars

C9_Witness ==
    /\ Terminated
    /\ returncode # <<>>
    /\ returncode # <<0>>
    /\ OutputLocation \notin fsDirs0

\* the end of a run whose process has returned: the one outcome the code selects
EndedAsReturned ==
    /\ Terminated
    /\ IF returncode = <<0>>
       THEN exitStatus = <<0>> /\ Len(stdout) = 1 /\ stderr = <<>>
       ELSE exitStatus # <<0>> /\ stdout = <<>> /\ Len(stderr) = 1
            /\ IsToolFailed(stderr[1])

(***************************************************************************)
(* C10.  While the external process runs the driver waits: it has printed  *)
(* nothing and has not terminated.  Once the process has returned, the     *)
(* driver eventually terminates, with the confirmation if the code is 0    *)
(* and with the tool-failure message otherwise.                            *)
(***************************************************************************)
C10_BlocksUntilExit ==
    /\ [](proc = "running" =>
            (pc = "waiting" /\ exitStatus = <<>> /\ stdout = <<>> /\ stderr = <<>>))
    /\ (proc = "exited") ~> EndedAsReturned

C10_Witness ==
    /\ proc = "exited"
    /\ EndedAsReturned
    /\ returncode = <<2>>

====
